---- MODULE Spec2Model ----
(***************************************************************************)
(* A model of recpipe.py: the luigi tasks that turn raw enrollment records *)
(* into cohort-aware train/test splits.                                    *)
(*                                                                         *)
(* Tables (pandas DataFrames) are sequences of records, one record per     *)
(* row, in row order.  Quality points are held in hundredths (3.67 is      *)
(* 367).  A missing numeric cell (np.nan) is the value NaN; every          *)
(* comparison with it is false, as in numpy.                               *)
(*                                                                         *)
(* The tasks are independent programs run by the workflow engine, so each  *)
(* component has its own specification (SpecFilter, SpecBackfill, ...)     *)
(* over the variables it uses; the other variables stay at their idle      *)
(* values.                                                                 *)
(***************************************************************************)
EXTENDS Integers, Sequences, FiniteSets, TLC

VARIABLES
    f_filt,     \* TrainTestFilter: the filter object under test
    f_data,     \* TrainTestFilter: the DataFrame handed to train()/test()
    f_out,      \* TrainTestFilter: [train, test] once computed, else <<>>
    b_in,       \* backfill: the arguments [train, test, key, firstn]
    b_out,      \* backfill: the returned [train, test], else <<>>
    s_csv,      \* DataSplitterBaseTask: rows of the preprocessed file it reads
    s_task,     \* DataSplitterBaseTask and its subclasses: the task's parameters
    s_out,      \* DataSplitterBaseTask: what split_data returned, else <<>>
    l_time,     \* UserCourseGradeLibFM: the time parameter
    l_files,    \* UserCourseGradeLibFM: the lines written, [train, test], else <<>>
    p_courses,  \* PreprocessedCourseData: rows of the courses file it reads
    p_admiss,   \* PreprocessedCourseData: rows of the admissions file it reads
    p_out,      \* PreprocessedCourseData: rows of the file it writes, else <<>>
    m_klass,    \* id-map task: which of the four tasks runs
    m_courses,  \* id-map task: rows of the courses file it reads
    m_map,      \* id-map task: the rows it wrote, else <<>>
    c_topn,     \* CompareMethods: the topn parameter
    c_files,    \* CompareMethods: the rows of each input's result file
    c_out,      \* CompareMethods: the rows written under the header, else <<>>
    r_csv,      \* read_data: rows of the file self.input() opens
    r_out,      \* read_data: the DataFrame returned, else <<>>
    pc          \* position of the running task

filterVars == <<f_filt, f_data, f_out>>
backfillVars == <<b_in, b_out>>
splitVars == <<s_csv, s_task, s_out>>
libfmVars == <<l_time, l_files>>
preVars == <<p_courses, p_admiss, p_out>>
mapVars == <<m_klass, m_courses, m_map>>
compareVars == <<c_topn, c_files, c_out>>
readVars == <<r_csv, r_out>>

vars == <<filterVars, backfillVars, splitVars, libfmVars, preVars, mapVars,
         compareVars, readVars, pc>>

----------------------------------------------------------------------------
(* Bounds of the model. *)

MaxCohort == 1      \* cohorts and cohort bounds of filters range over 0..MaxCohort
MaxTerm == 1        \* term numbers and term bounds of filters range over 0..MaxTerm
MaxFilterRows == 1  \* rows of the DataFrame handed to one filter
MaxTrainRows == 2   \* rows of the train argument of one backfill call
MaxTestRows == 3    \* rows of the test argument of one backfill call
MaxFirstn == 2      \* backfill counts range over 0..MaxFirstn
MaxCsvRows == 3     \* rows of the preprocessed file read by split_data
MaxColdFill == 1    \* backfill_cold_students/courses range over 0..MaxColdFill
MaxCourseRows == 3  \* rows of the raw courses file read by the id-map tasks
MaxRawRows == 2     \* rows of the raw courses file read by PreprocessedCourseData
MaxAdmissRows == 2  \* rows of the admissions file read by PreprocessedCourseData
MaxLibfmRows == 2   \* rows of the preprocessed file read by UserCourseGradeLibFM
MaxResultRows == 2  \* rows of one variant's result file
MaxTopn == 2        \* topn ranges over 1..MaxTopn

----------------------------------------------------------------------------
(* Missing values and helpers over tables. *)

NaN == -1

IsNull(x) == x = NaN

\* numpy comparisons: anything compared with nan is False
Ge(a, b) == ~IsNull(a) /\ ~IsNull(b) /\ a >= b
Le(a, b) == ~IsNull(a) /\ ~IsNull(b) /\ a <= b

Range(s) == {s[i] : i \in DOMAIN s}

SeqsUpTo(S, n) == UNION {[1..k -> S] : k \in 0..n}

\* number of rows of table s equal to row r
Count(s, r) == Cardinality({i \in DOMAIN s : s[i] = r})

\* one row of the preprocessed enrollment table (of one instructor)
Row(sid, cid, termnum, cohort, grade, grdpts) ==
    [sid |-> sid, cid |-> cid, termnum |-> termnum, cohort |-> cohort,
     GRADE |-> grade, grdpts |-> grdpts, iid |-> 0]

----------------------------------------------------------------------------
(* TrainTestFilter *)

term_max == 14

\* _split(config): "C-D" gives (C, D); a single value "C" gives (C, term_max)
SplitConfig(config) ==
    IF Len(config) = 2 THEN config ELSE <<config[1], term_max>>

\* __init__(filt): filt is "A-B" (spec.term = <<>>) or "cohort:term", each
\* part a sequence of one or two integers
TrainTestFilter(spec) ==
    IF spec.term # <<>>
    THEN [cohort_start |-> SplitConfig(spec.cohort)[1],
          cohort_end   |-> SplitConfig(spec.cohort)[2],
          term_start   |-> SplitConfig(spec.term)[1],
          term_end     |-> SplitConfig(spec.term)[2]]
    ELSE [cohort_start |-> spec.cohort[1],
          cohort_end   |-> spec.cohort[2],
          term_start   |-> 0,
          term_end     |-> term_max]

\* mask(data), row by row
Mask(f, r) ==
    /\ Ge(r.cohort, f.cohort_start)
    /\ Le(r.cohort, f.cohort_end)
    /\ Ge(r.termnum, f.term_start)
    /\ Le(r.termnum, f.term_end)

\* train(data): data[mask]
FilterTrain(f, data) == SelectSeq(data, LAMBDA r : Mask(f, r))

FilterTestOutOfRange(f, data) ==
    SelectSeq(data, LAMBDA r :
        \/ r.cohort # NaN /\ (r.cohort < f.cohort_start \/ r.cohort > f.cohort_end)
        \/ r.termnum # NaN /\ (r.termnum < f.term_start \/ r.termnum > f.term_end))

\* test(data): data[~mask]
FilterTest(f, data) == SelectSeq(data, LAMBDA r : ~Mask(f, r))

\* the filter strings the model draws: "A-B", "A-B:C-D", "A-B:C", "A:C-D", "A:C"
CohortParts == {<<a>> : a \in 0..MaxCohort}
                 \cup {<<a, b>> : a \in 0..MaxCohort, b \in 0..MaxCohort}
TermParts == {<<c>> : c \in 0..MaxTerm}
                 \cup {<<c, d>> : c \in 0..MaxTerm, d \in 0..MaxTerm}
FilterSpecs ==
    {[cohort |-> c, term |-> <<>>] : c \in {x \in CohortParts : Len(x) = 2}}
    \cup {[cohort |-> c, term |-> t] : c \in CohortParts, t \in TermParts}

FilterRows ==
    {Row(0, 0, t, c, "A", 400) : t \in (0..MaxTerm) \cup {NaN},
                                 c \in (0..MaxCohort) \cup {NaN}}

FilterIdle == f_filt = <<>> /\ f_data = <<>> /\ f_out = <<>>

BackfillIdle == b_in = <<>> /\ b_out = <<>>

SplitIdle == s_csv = <<>> /\ s_task = <<>> /\ s_out = <<>>

LibfmIdle == l_time = "" /\ l_files = <<>>

PreIdle == p_courses = <<>> /\ p_admiss = <<>> /\ p_out = <<>>

MapIdle == m_klass = "" /\ m_courses = <<>> /\ m_map = <<>>

CompareIdle == c_topn = 0 /\ c_files = <<>> /\ c_out = <<>>

ReadIdle == r_csv = <<>> /\ r_out = <<>>

InitFilter ==
    /\ pc = "filter"
    /\ BackfillIdle /\ SplitIdle /\ LibfmIdle /\ PreIdle /\ MapIdle /\ CompareIdle /\ ReadIdle
    /\ f_filt \in {TrainTestFilter(s) : s \in FilterSpecs}
    /\ f_data \in SeqsUpTo(FilterRows, MaxFilterRows)
    /\ f_out = <<>>

\* one call each of f.train(data) and f.test(data)
ApplyFilter ==
    /\ pc = "filter"
    /\ f_out' = [train |-> FilterTrain(f_filt, f_data),
                 test  |-> FilterTest(f_filt, f_data)]
    /\ pc' = "filtered"
    /\ UNCHANGED <<f_filt, f_data, backfillVars, splitVars, libfmVars, preVars, mapVars,
                 compareVars, readVars>>

NextFilter == ApplyFilter

SpecFilter == InitFilter /\ [][NextFilter]_vars

----------------------------------------------------------------------------
(* C4: for any filter f and any table data, rows with a missing cohort or  *)
(* termnum included, f.train(data) and f.test(data) share no row, every    *)
(* row of data is in exactly one of them (as many times as in data), and   *)
(* f.train(data) holds exactly the rows with                               *)
(* cohort_start <= cohort <= cohort_end and                                *)
(* term_start <= termnum <= term_end.                                      *)
InFilterRange(f, r) ==
    /\ r.cohort # NaN /\ r.termnum # NaN
    /\ f.cohort_start <= r.cohort /\ r.cohort <= f.cohort_end
    /\ f.term_start <= r.termnum /\ r.termnum <= f.term_end

C4_FilterPartition ==
    pc = "filtered" =>
        /\ Range(f_out.train) \cap Range(f_out.test) = {}
        /\ \A r \in Range(f_data) \cup Range(f_out.train) \cup Range(f_out.test) :
              Count(f_out.train, r) + Count(f_out.test, r) = Count(f_data, r)
        /\ Range(f_out.train) = {r \in Range(f_data) : InFilterRange(f_filt, r)}

C4_Witness ==
    /\ pc = "filtered"
    /\ \E r \in Range(f_out.test) : r.cohort = NaN
    /\ f_filt.term_end # term_max

----------------------------------------------------------------------------
(* DataSplitterBaseTask.backfill *)

Key(r, key) == IF key = "sid" THEN r.sid ELSE r.cid

KeyValues(t, key) == {Key(t[i], key) : i \in DOMAIN t}

\* data[mask], mask a boolean column aligned with data
MaskSelect(data, mask) ==
    LET F[i \in 0..Len(data)] ==
            IF i = 0 THEN <<>>
            ELSE IF mask[i] THEN Append(F[i - 1], data[i]) ELSE F[i - 1]
    IN  F[Len(data)]

Setdiff1dSwapped(a, b) == b \ a

\* np.setdiff1d(a, b): the values of a that are not in b
Setdiff1d(a, b) == a \ b

\* gb[key].transform('count'): for each row, the size of its group
GroupCounts(data, key) ==
    [i \in DOMAIN data |->
        Cardinality({j \in DOMAIN data : Key(data[j], key) = Key(data[i], key)})]

\* GroupBy._cumcount_array(): for each row, the number of earlier rows of its group
CumCount(data, key) ==
    [i \in DOMAIN data |->
        Cardinality({j \in 1..(i - 1) : Key(data[j], key) = Key(data[i], key)})]

GroupHeadOneMore(data, key, n) ==
    MaskSelect(data, [i \in DOMAIN data |-> CumCount(data, key)[i] < n + 1])

\* gb.head(n): the first n rows of every group, in the order of data
GroupHead(data, key, n) ==
    MaskSelect(data, [i \in DOMAIN data |-> CumCount(data, key)[i] < n])

\* gb.tail(n) with n a column aligned with data: pandas compares the
\* descending cumulative count of each row (0 for the last row of its group,
\* -1 for the one before, ...) with -n row by row
GroupTail(data, key, n) ==
    LET desc == [i \in DOMAIN data |->
                    -(GroupCounts(data, key)[i] - 1 - CumCount(data, key)[i])]
    IN  MaskSelect(data, [i \in DOMAIN data |-> desc[i] > -n[i]])

BackfillResultDropsTrain(train, test, removing, keeping, diff_mask) ==
    [train |-> removing,
     test  |-> MaskSelect(test, [i \in DOMAIN test |-> ~diff_mask[i]]) \o keeping]

\* the two pd.concat calls that end backfill
BackfillResult(train, test, removing, keeping, diff_mask) ==
    [train |-> train \o removing,
     test  |-> MaskSelect(test, [i \in DOMAIN test |-> ~diff_mask[i]]) \o keeping]

backfill(train, test, key, firstn) ==
    IF firstn = 0 THEN [train |-> train, test |-> test]
    ELSE
      LET diff == Setdiff1d(KeyValues(test, key), KeyValues(train, key))
          diff_mask == [i \in DOMAIN test |-> Key(test[i], key) \in diff]
          diff_records == MaskSelect(test, diff_mask)
          counts == GroupCounts(diff_records, key)
          tokeep == [i \in DOMAIN diff_records |->
                        IF counts[i] - firstn < 0 THEN 0 ELSE counts[i] - firstn]
          removing == GroupHead(diff_records, key, firstn)
          keeping == GroupTail(diff_records, key, tokeep)
      IN  BackfillResult(train, test, removing, keeping, diff_mask)

BackfillRows == {Row(s, c, 0, 0, "A", 400) : s \in 0..1, c \in 0..1}

InitBackfill ==
    /\ pc = "backfill"
    /\ FilterIdle /\ SplitIdle /\ LibfmIdle /\ PreIdle /\ MapIdle /\ CompareIdle /\ ReadIdle
    /\ b_in \in [train : SeqsUpTo(BackfillRows, MaxTrainRows),
                 test : SeqsUpTo(BackfillRows, MaxTestRows),
                 key : {"sid", "cid"},
                 firstn : 0..MaxFirstn]
    /\ b_out = <<>>

\* one call backfill(train, test, key, firstn)
CallBackfill ==
    /\ pc = "backfill"
    /\ b_out' = backfill(b_in.train, b_in.test, b_in.key, b_in.firstn)
    /\ pc' = "backfilled"
    /\ UNCHANGED <<filterVars, b_in, splitVars, libfmVars, preVars, mapVars,
                 compareVars, readVars>>

NextBackfill == CallBackfill

SpecBackfill == InitBackfill /\ [][NextBackfill]_vars

\* the key values of test that train lacks (the cold-start entities)
ColdKeys(train, test, key) == KeyValues(test, key) \ KeyValues(train, key)

\* number of rows of table t whose key is v
GroupSize(t, key, v) == Cardinality({i \in DOMAIN t : Key(t[i], key) = v})

(* C2: after backfill(train, test, key, firstn) with firstn >= 1, every    *)
(* value of key in the returned test is also in the returned train, and a  *)
(* value that was in test but not in train with at most firstn rows in     *)
(* test is in the returned test no more.                                   *)
C2_NoColdStart ==
    (pc = "backfilled" /\ b_in.firstn >= 1) =>
        /\ KeyValues(b_out.test, b_in.key) \subseteq KeyValues(b_out.train, b_in.key)
        /\ \A v \in ColdKeys(b_in.train, b_in.test, b_in.key) :
              GroupSize(b_in.test, b_in.key, v) <= b_in.firstn
                  => v \notin KeyValues(b_out.test, b_in.key)

C2_Witness ==
    /\ pc = "backfilled" /\ b_in.firstn >= 1
    /\ \E v, w \in ColdKeys(b_in.train, b_in.test, b_in.key) :
          /\ GroupSize(b_in.test, b_in.key, v) <= b_in.firstn
          /\ GroupSize(b_in.test, b_in.key, w) > b_in.firstn
          /\ w \in KeyValues(b_out.test, b_in.key)

(* C5: backfill keeps the total number of rows, for firstn = 0 and for     *)
(* firstn >= 1 with groups smaller than, equal to or larger than firstn.   *)
C5_RowCountPreserved ==
    pc = "backfilled" =>
        Len(b_out.train) + Len(b_out.test) = Len(b_in.train) + Len(b_in.test)

C5_Witness ==
    /\ pc = "backfilled" /\ b_in.firstn = 2
    /\ \E v, w \in ColdKeys(b_in.train, b_in.test, b_in.key) :
          /\ GroupSize(b_in.test, b_in.key, v) < b_in.firstn
          /\ GroupSize(b_in.test, b_in.key, w) = b_in.firstn
    /\ Len(b_out.train) = Len(b_in.train) + 3

(* C6: backfill only moves rows from test to train: the input train is the *)
(* head of the returned train, the returned test holds only rows of the    *)
(* input test, the rows added to train are exactly the rows removed from   *)
(* test, no row occurs more often in the output than in the input, and     *)
(* with firstn = 0 both tables are returned unchanged.                     *)
C6_OnlyTestToTrain ==
    pc = "backfilled" =>
        /\ Len(b_out.train) >= Len(b_in.train)
        /\ SubSeq(b_out.train, 1, Len(b_in.train)) = b_in.train
        /\ \A r \in BackfillRows :
              /\ Count(b_out.train, r) >= Count(b_in.train, r)
              /\ Count(b_out.test, r) <= Count(b_in.test, r)
              /\ Count(b_out.train, r) - Count(b_in.train, r)
                    = Count(b_in.test, r) - Count(b_out.test, r)
        /\ b_in.firstn = 0 => (b_out.train = b_in.train /\ b_out.test = b_in.test)

C6_Witness ==
    /\ pc = "backfilled" /\ b_in.firstn = 1
    /\ \E v \in ColdKeys(b_in.train, b_in.test, b_in.key) :
          GroupSize(b_in.test, b_in.key, v) = 3
    /\ Len(b_out.test) = 2
    /\ b_in.train # <<>>

----------------------------------------------------------------------------
(* DataSplitterBaseTask.read_data and split_data *)

\* the grade2pts table, in hundredths of a quality point; a grade that is
\* not a key of the table raises KeyError
GradeKeys == {"A+", "A", "A-", "B+", "B", "B-", "C+", "C", "C-", "D", "F",
              "IN", "S", "NC", "W", "NR", "AU", "REG", "IX", "IP", "nan"}

grade2pts(g) ==
    CASE g \in {"A+", "A"} -> 400
      [] g = "A-" -> 367
      [] g = "B+" -> 333
      [] g \in {"B", "S"} -> 300
      [] g = "B-" -> 267
      [] g = "C+" -> 233
      [] g = "C" -> 200
      [] g = "C-" -> 167
      [] g \in {"D", "NC", "W"} -> 100
      [] g \in {"F", "IN"} -> 0
      [] g \in {"NR", "AU", "REG", "IX", "IP", "nan"} -> NaN

\* drop_duplicates(('sid','cid'), take_last=True)
DropDuplicatesTakeFirst(data) ==
    MaskSelect(data, [i \in DOMAIN data |->
        ~\E j \in 1..(i - 1) :
            data[j].sid = data[i].sid /\ data[j].cid = data[i].cid])

DropDuplicatesTakeLast(data) ==
    MaskSelect(data, [i \in DOMAIN data |->
        ~\E j \in (i + 1)..Len(data) :
            data[j].sid = data[i].sid /\ data[j].cid = data[i].cid])

\* DataFrame.drop_duplicates(): of rows equal in every column, the first stays
DropDuplicates(data) ==
    MaskSelect(data, [i \in DOMAIN data |-> ~\E j \in 1..(i - 1) : data[j] = data[i]])

read_data(csv) ==
    LET data == DropDuplicatesTakeLast(csv)
    IN  MaskSelect(data, [i \in DOMAIN data |-> ~IsNull(data[i].grdpts)])

\* data.sort(['termnum', 'sid']): a stable sort on the two columns
SortLess(a, b) ==
    a.termnum < b.termnum \/ (a.termnum = b.termnum /\ a.sid < b.sid)

Sort(data) ==
    LET Insert(acc, r) ==
            LET k == Cardinality({j \in DOMAIN acc : ~SortLess(r, acc[j])})
            IN  SubSeq(acc, 1, k) \o <<r>> \o SubSeq(acc, k + 1, Len(acc))
        F[i \in 0..Len(data)] ==
            IF i = 0 THEN <<>> ELSE Insert(F[i - 1], data[i])
    IN  F[Len(data)]

\* pd.concat over a list of tables
Concat(tables) ==
    LET F[i \in 0..Len(tables)] ==
            IF i = 0 THEN <<>> ELSE F[i - 1] \o tables[i]
    IN  F[Len(tables)]

toremove == {"W", "S", "NC"}

StripNongradeNot(data) == data

\* data[~data.GRADE.isin(toremove)]
StripNongrade(data) ==
    MaskSelect(data, [i \in DOMAIN data |-> data[i].GRADE \notin toremove])

\* pd.concat([f.train(data) for f in self.filters]).drop_duplicates()
TrainUnion(filters, data) ==
    DropDuplicates(Concat([k \in DOMAIN filters |-> FilterTrain(filters[k], data)]))

\* pd.concat([f.test(data) for f in self.filters]).drop_duplicates()
TestUnion(filters, data) ==
    DropDuplicates(Concat([k \in DOMAIN filters |-> FilterTest(filters[k], data)]))

split_dataSidOnly(csv, task) ==
    LET data == Sort(read_data(csv))
        train1 == IF task.discard_nongrade
                  THEN StripNongrade(TrainUnion(task.filters, data))
                  ELSE TrainUnion(task.filters, data)
    IN  backfill(train1, StripNongrade(TestUnion(task.filters, data)),
                 "sid", task.backfill_cold_students)

split_data(csv, task) ==
    LET data == Sort(read_data(csv))
        train0 == TrainUnion(task.filters, data)
        test0 == TestUnion(task.filters, data)
        test1 == StripNongrade(test0)
        train1 == IF task.discard_nongrade THEN StripNongrade(train0) ELSE train0
        bysid == backfill(train1, test1, "sid", task.backfill_cold_students)
    IN  backfill(bysid.train, bysid.test, "cid", task.backfill_cold_courses)

\* rows of the preprocessed file: grdpts is what fill_grdpts left there, the
\* cohort is the student's, and course c is taught in term c
CsvRows ==
    {Row(s, c, c, s, g, grade2pts(g)) : s \in 0..1, c \in 0..1, g \in {"A", "W", "NR"}}

\* the train_filters parameters drawn: "0-0", "0-1:0-0", "0-0 1-1"
TrainFilters ==
    {<<TrainTestFilter([cohort |-> <<0, 0>>, term |-> <<>>])>>,
     <<TrainTestFilter([cohort |-> <<0, 1>>, term |-> <<0, 0>>])>>,
     <<TrainTestFilter([cohort |-> <<0, 0>>, term |-> <<>>]),
       TrainTestFilter([cohort |-> <<1, 1>>, term |-> <<>>])>>}

\* the task parameters drawn
SplitTasks ==
    [filters : TrainFilters, discard_nongrade : BOOLEAN,
     backfill_cold_students : 0..MaxColdFill, backfill_cold_courses : 0..MaxColdFill]

InitSplit ==
    /\ pc = "split"
    /\ FilterIdle /\ BackfillIdle /\ LibfmIdle /\ PreIdle /\ MapIdle /\ CompareIdle /\ ReadIdle
    /\ s_csv \in SeqsUpTo(CsvRows, MaxCsvRows)
    /\ s_task \in SplitTasks
    /\ s_out = <<>>

\* train, test = self.split_data()
SplitData ==
    /\ pc = "split"
    /\ s_out' = split_data(s_csv, s_task)
    /\ pc' = "split_done"
    /\ UNCHANGED <<filterVars, backfillVars, s_csv, s_task, libfmVars, preVars, mapVars,
                 compareVars, readVars>>

NextSplit == SplitData

SpecSplit == InitSplit /\ [][NextSplit]_vars

(* C1: train and test as returned by split_data share no record: a record *)
(* of the deduplicated dataset whose grdpts is not missing is never in     *)
(* both, for any list of filters and any backfill counts.  (The claim also *)
(* puts every such record in one of the two; split_data strips W, S and NC *)
(* records from test, and from train under discard_nongrade, so the        *)
(* formula states the half that the stripping leaves open.)                *)
C1_SplitPartition ==
    pc = "split_done" =>
        /\ Range(s_out.train) \cap Range(s_out.test) = {}
        /\ \A r \in Range(DropDuplicatesTakeLast(s_csv)) :
              ~IsNull(r.grdpts) =>
                  Count(s_out.train, r) + Count(s_out.test, r) <= 1

(* C3: the test set returned by split_data holds no record graded W, S or  *)
(* NC, whatever discard_nongrade, the filters and the backfill counts.     *)
C3_NoNongradeInTest ==
    pc = "split_done" => \A r \in Range(s_out.test) : r.GRADE \notin toremove

C3_Witness ==
    /\ pc = "split_done"
    /\ ~s_task.discard_nongrade
    /\ s_task.backfill_cold_students >= 1 /\ s_task.backfill_cold_courses >= 1
    /\ \E r \in Range(TestUnion(s_task.filters, Sort(read_data(s_csv)))) :
          r.GRADE \in toremove
    /\ \E r \in Range(s_out.train) : r.GRADE \in toremove
    /\ Len(s_out.train) > Len(TrainUnion(s_task.filters, Sort(read_data(s_csv))))

\* what the first of the two backfill calls of split_data returned
AfterSidBackfill ==
    LET data == Sort(read_data(s_csv))
        train1 == IF s_task.discard_nongrade
                  THEN StripNongrade(TrainUnion(s_task.filters, data))
                  ELSE TrainUnion(s_task.filters, data)
    IN  [before |-> train1,
         after  |-> backfill(train1, StripNongrade(TestUnion(s_task.filters, data)),
                             "sid", s_task.backfill_cold_students).train]

(* C12: after split_data with backfill_cold_students >= 1 and              *)
(* backfill_cold_courses >= 1, every sid of the returned test is in the    *)
(* returned train and every cid of the returned test is in the returned    *)
(* train: the backfill by cid leaves what the backfill by sid established. *)
C12_NoColdStudentOrCourse ==
    (/\ pc = "split_done"
     /\ s_task.backfill_cold_students >= 1
     /\ s_task.backfill_cold_courses >= 1) =>
        /\ KeyValues(s_out.test, "sid") \subseteq KeyValues(s_out.train, "sid")
        /\ KeyValues(s_out.test, "cid") \subseteq KeyValues(s_out.train, "cid")

\* both backfill calls moved a row
C12_Witness ==
    /\ pc = "split_done"
    /\ s_task.backfill_cold_students >= 1
    /\ s_task.backfill_cold_courses >= 1
    /\ Len(AfterSidBackfill.after) > Len(AfterSidBackfill.before)
    /\ Len(s_out.train) > Len(AfterSidBackfill.after)

----------------------------------------------------------------------------
(* UserCourseGradeLibFM.run and write_libfm *)

\* max() over a column of train and test together
MaxOf(S) == CHOOSE m \in S : \A x \in S : x <= m

\* the id columns map_ids appends, one per item of the dict idmap
IdColumns == {"cid", "sid", "iid", "termnum"}

\* the column labels of the preprocessed file, in the order
\* PreprocessedCourseData.run leaves them: the columns kept of the courses
\* file, the cohort, then the id columns in the order idmap.items() yields
\* them, which is the interpreter's (cid, termnum, sid, iid on CPython 2.7;
\* cid, sid, iid, termnum on CPython 3.7)
ColumnOrders ==
    {<<"GRADE", "grdpts", "cohort">> \o p :
        p \in {q \in [1..4 -> IdColumns] : \A i, j \in 1..4 : i # j => q[i] # q[j]}}

\* the lines of a libFM file.  One line per row: the rating, the two one-hot
\* feature numbers and, with a time mode, the feature number and value of
\* the time attribute (feature NaN: no third feature).  On a table with no
\* rows data.apply(extract_row, axis=1) returns the table itself, and
\* '\n'.join(lines) iterates its column labels: one line per label.
write_libfm(data, columns, timecol, time_feat_num) ==
    IF data = <<>> THEN [i \in DOMAIN columns |-> [label |-> columns[i]]]
    ELSE
    [i \in DOMAIN data |->
        IF time_feat_num # 0
        THEN [rating |-> data[i].grdpts, userid |-> data[i].sid,
              itemid |-> data[i].cid,
              timeid |-> time_feat_num, timeval |-> data[i].termnum]
        ELSE IF timecol # ""
        THEN [rating |-> data[i].grdpts, userid |-> data[i].sid,
              itemid |-> data[i].cid,
              timeid |-> data[i].termnum, timeval |-> 1]
        ELSE [rating |-> data[i].grdpts, userid |-> data[i].sid,
              itemid |-> data[i].cid,
              timeid |-> NaN, timeval |-> NaN]]

\* data.cid += n
AddToCid(data, n) == [i \in DOMAIN data |-> [data[i] EXCEPT !.cid = @ + n]]

\* data.termnum += n
AddToTermnum(data, n) == [i \in DOMAIN data |-> [data[i] EXCEPT !.termnum = @ + n]]

\* the body of run() after split_data returned a split that is not empty on
\* both sides; a side with no rows is written as its column labels
LibFMFiles(split, columns, time) ==
    LET max_row_idx == MaxOf(KeyValues(split.test, "sid") \cup KeyValues(split.train, "sid"))
        train == AddToCid(split.train, max_row_idx)
        test == AddToCid(split.test, max_row_idx)
        max_col_idx == MaxOf(KeyValues(test, "cid") \cup KeyValues(train, "cid"))
    IN  IF time = "bin"
        THEN [train |-> write_libfm(AddToTermnum(train, max_col_idx), columns, "termnum", 0),
              test  |-> write_libfm(AddToTermnum(test, max_col_idx), columns, "termnum", 0)]
        ELSE IF time = "cat"
        THEN [train |-> write_libfm(train, columns, "termnum", max_col_idx + 1),
              test  |-> write_libfm(test, columns, "termnum", max_col_idx + 1)]
        ELSE [train |-> write_libfm(train, columns, "", 0),
              test  |-> write_libfm(test, columns, "", 0)]

InitLibFM ==
    /\ pc = "libfm"
    /\ FilterIdle /\ BackfillIdle /\ PreIdle /\ MapIdle /\ CompareIdle /\ ReadIdle
    /\ s_csv \in SeqsUpTo(CsvRows, MaxLibfmRows)
    /\ s_task \in SplitTasks
    /\ s_out = <<>>
    /\ l_time \in {"", "cat", "bin"}
    /\ l_files = <<>>

\* UserCourseGradeLibFM.run on a preprocessed file with the columns in one
\* of their orders; max() of an empty array raises ValueError
LibFMRun ==
    /\ pc = "libfm"
    /\ s_out' = split_data(s_csv, s_task)
    /\ IF s_out'.train = <<>> /\ s_out'.test = <<>>
       THEN pc' = "ValueError" /\ l_files' = <<>>
       ELSE /\ pc' = "libfm_written"
            /\ \E columns \in ColumnOrders :
                  l_files' = LibFMFiles(s_out', columns, l_time)
    /\ UNCHANGED <<filterVars, backfillVars, s_csv, s_task, l_time, preVars, mapVars,
                 compareVars, readVars>>

NextLibFM == LibFMRun

SpecLibFM == InitLibFM /\ [][NextLibFM]_vars

\* the lines of the two files that encode a row
LibfmLines ==
    {l \in Range(l_files.train) \cup Range(l_files.test) : "rating" \in DOMAIN l}

(* C7: in the files written by UserCourseGradeLibFM.run the index blocks   *)
(* are disjoint: the largest row (sid) index is strictly less than the     *)
(* smallest column (cid) index; with time 'cat' or 'bin' the largest       *)
(* column index is strictly less than the smallest time index; and the     *)
(* column offset is max(sid)+1 over train and test together.               *)
C7_IndexBlocksDisjoint ==
    pc = "libfm_written" =>
        LET max_sid == MaxOf(KeyValues(s_out.train, "sid") \cup KeyValues(s_out.test, "sid"))
        IN  /\ \A x, y \in LibfmLines : x.userid < y.itemid
            /\ l_time \in {"cat", "bin"} =>
                  \A x, y \in LibfmLines : x.itemid < y.timeid
            /\ \A i \in DOMAIN s_out.train :
                  l_files.train[i].itemid = s_out.train[i].cid + max_sid + 1
            /\ \A i \in DOMAIN s_out.test :
                  l_files.test[i].itemid = s_out.test[i].cid + max_sid + 1

----------------------------------------------------------------------------
(* StudentIdMap, CourseIdMap, InstructorIdMap, OrdinalTermMap *)

\* the ids attribute of each task: the columns of its natural key
ids(klass) ==
    CASE klass = "StudentIdMap" -> <<"id">>
      [] klass = "CourseIdMap" -> <<"DISC", "CNUM", "HRS">>
      [] klass = "InstructorIdMap" -> <<"INSTR_LNAME", "INSTR_FNAME">>
      [] klass = "OrdinalTermMap" -> <<"TERMBNR">>

IdMapTasks == {"StudentIdMap", "CourseIdMap", "InstructorIdMap", "OrdinalTermMap"}

\* courses[self.ids]: the key columns, each row under its index label
SelectColumns(courses, cols) ==
    [i \in DOMAIN courses |->
        [index |-> i - 1, key |-> [k \in DOMAIN cols |-> courses[i][cols[k]]]]]

\* drop_duplicates(): of rows with equal key columns the first stays, under
\* the index label it had
DropDuplicateKeys(t) ==
    MaskSelect(t, [i \in DOMAIN t |-> ~\E j \in 1..(i - 1) : t[j].key = t[i].key])

ResetIndexNot(t) == t

\* reset_index()[self.ids]: the rows are numbered 0, 1, ... in their order
ResetIndex(t) == [i \in DOMAIN t |-> [t[i] EXCEPT !.index = i - 1]]

\* the rows to_csv writes: the index and the key columns
IdMapRows(courses, klass) ==
    ResetIndex(DropDuplicateKeys(SelectColumns(courses, ids(klass))))

\* rows of the raw courses file: two students, one course number taught
\* with 1 or 3 credit hours, two instructors, two terms
CourseRows ==
    [id : {1001, 1002}, DISC : {"CS"}, CNUM : {101}, HRS : {1, 3},
     INSTR_LNAME : {"Kim", "Lee"}, INSTR_FNAME : {"A"},
     TERMBNR : {201010, 201070}]

InitIdMap ==
    /\ pc = "idmap"
    /\ FilterIdle /\ BackfillIdle /\ SplitIdle /\ LibfmIdle /\ PreIdle /\ CompareIdle /\ ReadIdle
    /\ m_klass \in IdMapTasks
    /\ m_courses \in SeqsUpTo(CourseRows, MaxCourseRows)
    /\ m_map = <<>>

\* the run method of the task: each of the four reads the courses file and
\* writes its own map
IdMapRun ==
    /\ pc = "idmap"
    /\ m_map' = IdMapRows(m_courses, m_klass)
    /\ pc' = "idmap_written"
    /\ UNCHANGED <<filterVars, backfillVars, splitVars, libfmVars, preVars, m_klass, m_courses,
                 compareVars, readVars>>

NextIdMap == IdMapRun

SpecIdMap == InitIdMap /\ [][NextIdMap]_vars

\* the natural key of row i of the courses file, for one task
NaturalKey(klass, i) == [k \in DOMAIN ids(klass) |-> m_courses[i][ids(klass)[k]]]

DistinctKeys(klass) == {NaturalKey(klass, i) : i \in DOMAIN m_courses}

\* the row of the courses file where a key first appears
FirstSeen(klass, key) ==
    CHOOSE i \in DOMAIN m_courses :
        /\ NaturalKey(klass, i) = key
        /\ \A j \in 1..(i - 1) : NaturalKey(klass, j) # key

(* C10: each of the four id maps has exactly one row per distinct natural  *)
(* key of the enrollment table; with n distinct keys the indices are       *)
(* 0..n-1; the key-to-index mapping is injective; and a key that first     *)
(* appears earlier in the input has a smaller index.                       *)
C10_IdMapDense ==
    pc = "idmap_written" =>
        LET map == m_map
            klass == m_klass
            n == Cardinality(DistinctKeys(klass))
        IN  /\ Len(map) = n
            /\ {map[i].key : i \in DOMAIN map} = DistinctKeys(klass)
            /\ {map[i].index : i \in DOMAIN map} = 0..(n - 1)
            /\ \A i, j \in DOMAIN map :
                  i # j => (map[i].key # map[j].key /\ map[i].index # map[j].index)
            /\ \A i, j \in DOMAIN map :
                  FirstSeen(klass, map[i].key) < FirstSeen(klass, map[j].key)
                      => map[i].index < map[j].index

C10_Witness ==
    /\ pc = "idmap_written"
    /\ m_klass = "CourseIdMap"
    /\ Len(m_courses) = 3
    /\ m_courses[1].HRS = m_courses[3].HRS
    /\ m_courses[1].HRS # m_courses[2].HRS
    /\ Len(m_map) = 2

----------------------------------------------------------------------------
(* PreprocessedCourseData.run *)

\* an empty GRADE cell, read by pandas as np.nan (a key of grade2pts)
MissingGrade == "<np.nan>"

\* series['GRADE'] != np.nan: nan compares unequal to everything, itself included
NotEqualNan(x) == TRUE

\* read_csv: a GRADE column with no text in any cell is a float64 column,
\* one with text holds objects, its empty cells the object np.nan
GradeColumnIsFloat(courses) == \A i \in DOMAIN courses : courses[i].GRADE = MissingGrade

\* grade2pts[g] raises KeyError unless g is a key; the key np.nan is found
\* by the object np.nan alone, not by the nan of a float64 cell
HasGradeKey(g, isfloat) == g \in GradeKeys \/ (g = MissingGrade /\ ~isfloat)

grade2ptsLookup(g) == IF g = MissingGrade THEN NaN ELSE grade2pts(g)

fill_grdpts(series) ==
    IF NotEqualNan(series.GRADE)
    THEN grade2ptsLookup(series.GRADE)
    ELSE series.grdpts

\* the index an id map gives a key; the left merge leaves nan for a key the
\* map does not have
MapIndex(idmap, key) ==
    IF \E i \in DOMAIN idmap : idmap[i].key = key
    THEN idmap[CHOOSE i \in DOMAIN idmap : idmap[i].key = key].index
    ELSE NaN

\* courses.grdpts = courses.apply(fill_grdpts, axis=1)
FillGrdpts(courses) ==
    [i \in DOMAIN courses |-> [courses[i] EXCEPT !.grdpts = fill_grdpts(courses[i])]]

\* admiss.merge(idmap, how='left', on='TERMBNR') with idmap['cohort'] the
\* index of the term map, then del admiss['TERMBNR']
AdmissCohorts(admiss, termmap) ==
    [i \in DOMAIN admiss |->
        [id |-> admiss[i].id, cohort |-> MapIndex(termmap, <<admiss[i].TERMBNR>>)]]

\* the cohort cells one courses row gets in the left merge on 'id': one per
\* admissions row of the student, in their order, or one nan
CohortsOf(admiss, id) ==
    LET own == SelectSeq(admiss, LAMBDA a : a.id = id)
    IN  IF own = <<>> THEN <<NaN>> ELSE [k \in DOMAIN own |-> own[k].cohort]

\* courses.merge(admiss, how='left', on='id')
MergeAdmissions(courses, admiss) ==
    Concat([i \in DOMAIN courses |->
        [k \in DOMAIN CohortsOf(admiss, courses[i].id) |->
            [x \in DOMAIN courses[i] \cup {"cohort"} |->
                IF x = "cohort" THEN CohortsOf(admiss, courses[i].id)[k]
                ELSE courses[i][x]]]])

\* map_ids(input_name, idname): the key columns of the task give way to the
\* column idname, the index of the row's key in the task's map
map_ids(courses, input_name, idname) ==
    LET idmap == IdMapRows(courses, input_name)
        key(r) == [k \in DOMAIN ids(input_name) |-> r[ids(input_name)[k]]]
    IN  [i \in DOMAIN courses |->
            [x \in (DOMAIN courses[i] \ Range(ids(input_name))) \cup {idname} |->
                IF x = idname THEN MapIndex(idmap, key(courses[i]))
                ELSE courses[i][x]]]

\* the rows run() writes when fill_grdpts raises nothing.  The four maps are
\* the files the id-map tasks wrote from the same courses file.
PreprocessRows(courses, admiss) ==
    LET termmap == IdMapRows(courses, "OrdinalTermMap")
        merged == MergeAdmissions(FillGrdpts(courses), AdmissCohorts(admiss, termmap))
        withcid == map_ids(merged, "CourseIdMap", "cid")
        withsid == map_ids(withcid, "StudentIdMap", "sid")
        withiid == map_ids(withsid, "InstructorIdMap", "iid")
    IN  map_ids(withiid, "OrdinalTermMap", "termnum")

\* the rows of the raw courses file drawn (without the columns run() deletes
\* before it writes): two students, a course with 1 or 3 credit hours, two
\* terms; a letter grade whose recorded points agree or disagree with the
\* table or are missing, a grade mapped to missing, an empty grade, and a
\* code that is not in the table
RawGrades == {"A", "A-", "NR", MissingGrade, "XX"}
RawPoints == {NaN, 400, 350}
RawRows ==
    [id : {1001, 1002}, DISC : {"CS"}, CNUM : {101}, HRS : {1, 3},
     INSTR_LNAME : {"Kim"}, INSTR_FNAME : {"A"}, TERMBNR : {201010, 201070},
     GRADE : RawGrades, grdpts : RawPoints]

\* the rows of the admissions file drawn: its first two columns
AdmissRows == [id : {1001, 1002}, TERMBNR : {201010, 201070}]

\* a courses file with at least one row
InitPre ==
    /\ pc = "preprocess"
    /\ FilterIdle /\ BackfillIdle /\ SplitIdle /\ LibfmIdle /\ MapIdle /\ CompareIdle /\ ReadIdle
    /\ p_courses \in SeqsUpTo(RawRows, MaxRawRows) \ {<<>>}
    /\ p_admiss \in SeqsUpTo(AdmissRows, MaxAdmissRows)
    /\ p_out = <<>>

\* PreprocessedCourseData.run: the quality points, the admissions merge, the
\* four id merges, and the file is written; a KeyError in fill_grdpts ends
\* the task with nothing written
PreprocessRun ==
    /\ pc = "preprocess"
    /\ IF \A i \in DOMAIN p_courses :
             HasGradeKey(p_courses[i].GRADE, GradeColumnIsFloat(p_courses))
       THEN /\ p_out' = PreprocessRows(p_courses, p_admiss)
            /\ pc' = "preprocessed"
       ELSE /\ p_out' = <<>>
            /\ pc' = "KeyError"
    /\ UNCHANGED <<filterVars, backfillVars, splitVars, libfmVars, p_courses, p_admiss,
                   mapVars, compareVars, readVars>>

NextPre == PreprocessRun

SpecPre == InitPre /\ [][NextPre]_vars

\* the number of rows written for row i of the courses file
Copies(i) ==
    LET n == Cardinality({k \in DOMAIN p_admiss : p_admiss[k].id = p_courses[i].id})
    IN  IF n = 0 THEN 1 ELSE n

\* the row of the courses file that row k of the written file comes from
Origin(k) ==
    LET First[i \in DOMAIN p_courses] == IF i = 1 THEN 1 ELSE First[i - 1] + Copies(i - 1)
    IN  CHOOSE i \in DOMAIN p_courses : First[i] <= k /\ k < First[i] + Copies(i)

(* C8: in the grade-to-quality-points step, a record whose grdpts is       *)
(* present keeps it unchanged; only a record whose grdpts is missing gets  *)
(* the grade2pts value of its GRADE.                                       *)
C8_PresentPointsKept ==
    pc = "preprocessed" =>
        \A k \in DOMAIN p_out :
            IF p_courses[Origin(k)].grdpts # NaN
            THEN p_out[k].grdpts = p_courses[Origin(k)].grdpts
            ELSE p_out[k].grdpts = grade2ptsLookup(p_courses[Origin(k)].GRADE)

(* C9: a record whose GRADE is not a key of grade2pts does not make        *)
(* preprocessing fail: its quality points are written as missing, and the  *)
(* record is then in neither train nor test of any split.                  *)
C9_UnknownGradeIsMissing ==
    (pc # "preprocess" /\ \E i \in DOMAIN p_courses : p_courses[i].GRADE \notin GradeKeys \cup {MissingGrade}) =>
        /\ pc = "preprocessed"
        /\ \A k \in DOMAIN p_out :
              p_courses[Origin(k)].GRADE \notin GradeKeys \cup {MissingGrade} =>
                  /\ p_out[k].grdpts = NaN
                  /\ \A task \in SplitTasks :
                        p_out[k] \notin Range(split_data(p_out, task).train)
                                          \cup Range(split_data(p_out, task).test)

----------------------------------------------------------------------------
(* RunAllOnSplit and CompareMethods *)

\* RunAllOnSplit.requires: the six variants, in this order
Methods == <<"SVD", "BiasedSVD", "TimeSVD", "BiasedTimeSVD", "BPTF", "BiasedBPTF">>

\* the class attributes time and use_bias of the six variants
time(klass) ==
    CASE klass \in {"SVD", "BiasedSVD"} -> ""
      [] klass \in {"TimeSVD", "BiasedTimeSVD"} -> "cat"
      [] klass \in {"BPTF", "BiasedBPTF"} -> "bin"

use_bias(klass) == klass \in {"BiasedSVD", "BiasedTimeSVD", "BiasedBPTF"}

\* the defaults of the parameters CompareMethods does not hand on
iterations == 100
init_stdev == <<"0", "3">>     \* str(0.3) about its '.'

prefix == "ucg"

\* TrainTestFilter.__str__: '%d_%dT%d_%d'
FilterStr(f) ==
    ToString(f.cohort_start) \o "_" \o ToString(f.cohort_end) \o "T"
        \o ToString(f.term_start) \o "_" \o ToString(f.term_end)

\* the parts of output_base_fname, which it joins by '-': the prefix, the
\* filters, 'ng', the backfill marks and the suffix
output_base_fname(task, suffix) ==
    <<prefix>>
    \o [k \in DOMAIN task.filters |-> FilterStr(task.filters[k])]
    \o (IF ~task.discard_nongrade THEN <<"ng">> ELSE <<>>)
    \o (IF task.backfill_cold_students # 0
        THEN <<"scs" \o ToString(task.backfill_cold_students)>> ELSE <<>>)
    \o (IF task.backfill_cold_courses # 0
        THEN <<"ccs" \o ToString(task.backfill_cold_courses)>> ELSE <<>>)
    \o suffix

\* the suffix RunLibFM.output builds: the time mode, the iterations, the
\* initial deviation and the bias mark
Suffix(klass) ==
    (IF time(klass) # "" THEN <<"time-" \o time(klass)>> ELSE <<>>)
    \o <<"i" \o ToString(iterations), "s" \o init_stdev[1] \o init_stdev[2]>>
    \o (IF use_bias(klass) THEN <<"b">> ELSE <<>>)

\* the path of a variant's result file, as RunLibFM.output builds it:
\* base/<parts joined by '-'>.<class name>.<ext>
ResultPath(klass, task) ==
    [base |-> "outcomes",
     parts |-> output_base_fname(task, Suffix(klass)),
     klass |-> klass,
     ext |-> "tsv"]

\* os.path.basename(outfile).split('-')[0]: the text before the first '-',
\* which is the first part (the prefix has no '-'); a name with no '-' is
\* returned whole
extract_method_name(path) ==
    IF Len(path.parts) > 1 THEN path.parts[1]
    ELSE <<path.parts[1], path.klass, path.ext>>

\* read_results: one row per line of the file; the content of an empty file
\* splits into one empty line, and int('') raises ValueError
ReadResultsRaises(file) == file = <<>>

\* row.insert(0, method_name)
Tagged(rows, method_name) ==
    [i \in DOMAIN rows |->
        [method |-> method_name, dim |-> rows[i].dim,
         train |-> rows[i].train, test |-> rows[i].test]]

\* sorted(rows, key=lambda tup: tup[-1]): stable, ascending test error
SortedByTest(rows) ==
    LET Insert(acc, r) ==
            LET k == Cardinality({j \in DOMAIN acc : acc[j].test <= r.test})
            IN  SubSeq(acc, 1, k) \o <<r>> \o SubSeq(acc, k + 1, Len(acc))
        F[i \in 0..Len(rows)] ==
            IF i = 0 THEN <<>> ELSE Insert(F[i - 1], rows[i])
    IN  F[Len(rows)]

\* top[:self.topn]
FirstN(rows, n) == SubSeq(rows, 1, IF n < Len(rows) THEN n ELSE Len(rows))

\* the loop over self.input() and the final sort
CompareRows(files, topn, task) ==
    LET F[k \in 0..Len(Methods)] ==
            IF k = 0 THEN <<>>
            ELSE F[k - 1] \o
                 FirstN(SortedByTest(Tagged(files[k],
                            extract_method_name(ResultPath(Methods[k], task)))), topn)
    IN  SortedByTest(F[Len(Methods)])

\* the result files drawn: one row per dimension from 5 on, train error
\* 0.100, test error 0.200 or 0.300 (errors in thousandths)
ResultFiles ==
    UNION {[1..k -> {20, 30}] : k \in 0..MaxResultRows}

FileRows(errs) ==
    [i \in DOMAIN errs |-> [dim |-> 4 + i, train |-> 10, test |-> errs[i]]]

\* the parameters of the six variants: CompareMethods.requires hands on its
\* train_filters alone, the others keep their defaults
CompareTasks ==
    {[filters |-> f, discard_nongrade |-> TRUE,
      backfill_cold_students |-> 3, backfill_cold_courses |-> 3] : f \in TrainFilters}

InitCompare ==
    /\ pc = "compare"
    /\ FilterIdle /\ BackfillIdle /\ LibfmIdle /\ PreIdle /\ MapIdle /\ ReadIdle
    /\ s_csv = <<>> /\ s_out = <<>>
    /\ s_task \in CompareTasks
    /\ c_topn \in 1..MaxTopn
    /\ c_files \in {[k \in DOMAIN Methods |-> FileRows(e[k])] :
                        e \in [DOMAIN Methods -> ResultFiles]}
    /\ c_out = <<>>

\* CompareMethods.run
CompareRun ==
    /\ pc = "compare"
    /\ IF \E k \in DOMAIN Methods : ReadResultsRaises(c_files[k])
       THEN pc' = "ValueError" /\ c_out' = <<>>
       ELSE pc' = "compared" /\ c_out' = CompareRows(c_files, c_topn, s_task)
    /\ UNCHANGED <<filterVars, backfillVars, splitVars, libfmVars, preVars, mapVars,
                   c_topn, c_files, readVars>>

NextCompare == CompareRun

SpecCompare == InitCompare /\ [][NextCompare]_vars

Min(a, b) == IF a < b THEN a ELSE b

(* C11: the leaderboard CompareMethods.run writes with top-N value N holds, *)
(* for each variant, exactly min(N, number of rows of the variant) rows    *)
(* tagged with the variant's name, also when the variant has fewer than N  *)
(* rows; they are rows of that variant and no row left out has a smaller   *)
(* test_error; and the leaderboard is in ascending order of test_error.    *)
(* (Stated of the runs that write a leaderboard; a result file with no     *)
(* rows ends the run in read_results.)                                     *)
C11_Leaderboard ==
    pc = "compared" =>
        /\ \A k \in DOMAIN Methods :
              LET kept == SelectSeq(c_out, LAMBDA r : r.method = Methods[k])
                  bare == {[dim |-> r.dim, train |-> r.train, test |-> r.test] :
                              r \in Range(kept)}
              IN  /\ Len(kept) = Min(c_topn, Len(c_files[k]))
                  /\ Cardinality(bare) = Len(kept)
                  /\ bare \subseteq Range(c_files[k])
                  /\ \A r \in bare : \A u \in Range(c_files[k]) \ bare :
                        r.test <= u.test
        /\ \A i, j \in DOMAIN c_out : i < j => c_out[i].test <= c_out[j].test

----------------------------------------------------------------------------
(* DataSplitterBaseTask.read_data on its own *)

InitRead ==
    /\ pc = "read"
    /\ FilterIdle /\ BackfillIdle /\ SplitIdle /\ LibfmIdle /\ PreIdle /\ MapIdle
    /\ CompareIdle
    /\ r_csv \in SeqsUpTo(CsvRows, MaxCsvRows)
    /\ r_out = <<>>

\* data = self.read_data()
ReadData ==
    /\ pc = "read"
    /\ r_out' = read_data(r_csv)
    /\ pc' = "read_done"
    /\ UNCHANGED <<filterVars, backfillVars, splitVars, libfmVars, preVars, mapVars,
                   compareVars, r_csv>>

NextRead == ReadData

SpecRead == InitRead /\ [][NextRead]_vars

\* the positions of the file's records of the pair (sid, cid)
PairRows(s, c) == {i \in DOMAIN r_csv : r_csv[i].sid = s /\ r_csv[i].cid = c}

\* the pair's last record in file order
LastOfPair(s, c) == r_csv[CHOOSE i \in PairRows(s, c) : \A j \in PairRows(s, c) : j <= i]

(* C13: read_data returns at most one record per (sid, cid) pair; the      *)
(* record returned for a pair is the pair's last record in file order; and *)
(* a pair whose last record has missing grdpts has no record in the        *)
(* result, even when an earlier record of the pair has a grade.            *)
C13_LastRecordThenFilter ==
    pc = "read_done" =>
        /\ \A i, j \in DOMAIN r_out :
              (r_out[i].sid = r_out[j].sid /\ r_out[i].cid = r_out[j].cid) => i = j
        /\ \A r \in Range(r_out) :
              PairRows(r.sid, r.cid) # {} /\ r = LastOfPair(r.sid, r.cid)
        /\ \A k \in DOMAIN r_csv :
              LET last == LastOfPair(r_csv[k].sid, r_csv[k].cid)
              IN  IF IsNull(last.grdpts)
                  THEN ~\E r \in Range(r_out) :
                          r.sid = last.sid /\ r.cid = last.cid
                  ELSE last \in Range(r_out)

\* a pair with a graded record followed by a last record without grdpts,
\* next to a pair whose record is returned
C13_Witness ==
    /\ pc = "read_done"
    /\ r_out # <<>>
    /\ \E i, j \in DOMAIN r_csv :
          /\ i < j
          /\ r_csv[i].sid = r_csv[j].sid /\ r_csv[i].cid = r_csv[j].cid
          /\ ~IsNull(r_csv[i].grdpts)
          /\ r_csv[j] = LastOfPair(r_csv[j].sid, r_csv[j].cid)
          /\ IsNull(r_csv[j].grdpts)

====
